---- MODULE Spec2Model ----
(***************************************************************************)
(* State-machine model of the iSentek IST8308 magnetometer driver          *)
(* (src/drivers/magnetometer/isentek/ist8308/IST8308.cpp).                 *)
(*                                                                         *)
(* Three execution contexts are modelled:                                  *)
(*   - the work-queue thread that executes IST8308::Run(),                 *)
(*   - a client thread that calls IST8308::Stop() and IST8308::Reset(),    *)
(*   - the environment: the clock, the scheduler's timer, the sensor.      *)
(* Every access to the atomic _state and every Schedule*() call is one     *)
(* step, so a Stop()/Reset() store may land between Run()'s load of the    *)
(* state and Run()'s own store.                                            *)
(*                                                                         *)
(* Time is counted in ticks of 10 ms.  Register values are sets of bit     *)
(* numbers: v & m is the intersection, v | m the union, v & ~m the         *)
(* difference, and the byte 0 is the empty set.                            *)
(***************************************************************************)
EXTENDS Integers, FiniteSets, Sequences, TLC

VARIABLES
    state,             \* _state (px4::atomic<STATE>)
    checked_register,  \* _checked_register, the health-check cursor
    since_reset,       \* hrt_elapsed_time(&_reset_timestamp), saturating
    since_check,       \* hrt_elapsed_time(&_last_config_check_timestamp), saturating
    queued,            \* the work item is on the work queue (Run() requested)
    timer,             \* the hrt call of the work item: "off", "once", "every"
    timer_left,        \* ticks until that call fires
    run_pc,            \* position of the work-queue thread inside Run()
    client_pc,         \* position of the client thread inside Stop()/Reset()
    regs,              \* sensor: value of the register of each table entry
    srst,              \* sensor: CNTL3.SRST is set (software reset in progress)
    faults,            \* environment: bus transfer failures still to come
    drifts,            \* environment: register upsets still to come
    calls,             \* environment: Stop()/Reset() calls still to come
    rearm,             \* history: a Reset() request no RESET phase has served yet
    last,              \* history: what the Run() invocation of this tick did
    buffer,            \* READ: the TransferBuffer the bulk read filled
    sample             \* READ: what the invocation passed to _px4_mag.update()

vars == << state, checked_register, since_reset, since_check, queued, timer,
           timer_left, run_pc, client_pc, regs, srst, faults, drifts, calls, rearm,
           last, buffer, sample >>

sched == << queued, timer, timer_left >>
driver == << checked_register, since_reset, since_check >>
sensor == << regs, srst >>
env == << faults, drifts, calls >>
io == << buffer, sample >>

-----------------------------------------------------------------------------
(* Bounds of the model *)

\* bus transfer failures injected in one behaviour
MaxFaults == 1

\* register upsets (drift, spontaneous sensor reset) injected in one behaviour
MaxDrifts == 1

\* calls of Stop() and Reset() the client makes in one behaviour
MaxCalls == 2

\* elapsed times saturate this many ticks above the 100 ms timeout
ElapsedSlack == 1

-----------------------------------------------------------------------------
(* Program constants, in ticks of 10 ms *)

\* ScheduleDelayed(50_ms)
Delay50ms == 5

\* hrt_elapsed_time(&_reset_timestamp) > 100_ms
ResetTimeout == 10

\* hrt_elapsed_time(&_last_config_check_timestamp) > 100_ms
CheckInterval == 10

\* ScheduleOnInterval(20_ms, 20_ms)
SampleInterval == 2

ElapsedCap == ResetTimeout + ElapsedSlack

STATES == {"RESET", "WAIT_FOR_RESET", "CONFIGURE", "READ", "REQUEST_STOP", "STOPPED"}

-----------------------------------------------------------------------------
(* Register map and configuration table (IST8308.hpp,                      *)
(* iSentek_IST8308_registers.hpp)                                          *)

\* WAI value of the IST8308
Device_ID == 8

\* CNTL3_BIT::SRST and STAT_BIT::DRDY, STAT_BIT::DOR as bit numbers
SRST == 0
DRDY == 0
DOR == 1

\* number of entries of _register_cfg
size_register_cfg == 3

\* _register_cfg: register, bits required set, bits required clear
register_cfg ==
    << [reg |-> "ACTR",    set_bits |-> {},     clear_bits |-> {1}],
       [reg |-> "CNTL2",   set_bits |-> {2},    clear_bits |-> {3}],
       [reg |-> "OSRCNTL", set_bits |-> {3, 5}, clear_bits |-> {}] >>

Entries == 1..size_register_cfg

\* the bits of an entry's register the driver looks at
CfgBits(i) == register_cfg[i].set_bits \cup register_cfg[i].clear_bits

\* register values after the sensor's power-on reset
PowerOnRegs == [i \in Entries |-> {}]

-----------------------------------------------------------------------------
(* Transaction primitive and register helpers.  `f` is the set of          *)
(* transfers of one RegisterCheck() that fail on the bus:                  *)
(* "c" its read, "r" the read and "w" the write of the correction.         *)

\* RegisterRead(): cmd[1] stays 0 when the transfer fails
RegisterRead(value, ok) == IF ok THEN value ELSE {}

\* RegisterWrite(): the register keeps its value when the transfer fails
RegisterWrite(value, new, ok) == IF ok THEN new ELSE value

RegisterSetAndClearBits_clear_only(value, setbits, clearbits, rok, wok) ==
    RegisterWrite(value, RegisterRead(value, rok) \ clearbits, wok)

\* RegisterSetAndClearBits(): read, OR in setbits, AND-NOT clearbits, write
RegisterSetAndClearBits(value, setbits, clearbits, rok, wok) ==
    LET orig_val == RegisterRead(value, rok)
        val == (orig_val \cup setbits) \ clearbits
    IN  RegisterWrite(value, val, wok)

\* the verification of RegisterCheck() on the value it read
Verifies(reg_value, reg_cfg) ==
    /\ ~(reg_cfg.set_bits # {} /\ (reg_value \cap reg_cfg.set_bits) = {})
    /\ ~(reg_cfg.clear_bits # {} /\ (reg_value \cap reg_cfg.clear_bits) # {})

\* RegisterCheck(): verification result, register afterwards, corrections made
RegisterCheck(value, reg_cfg, f) ==
    LET reg_value == RegisterRead(value, "c" \notin f)
        success == Verifies(reg_value, reg_cfg)
    IN  [success |-> success,
         value |-> IF success THEN value
                   ELSE RegisterSetAndClearBits(value, reg_cfg.set_bits,
                            reg_cfg.clear_bits, "r" \notin f, "w" \notin f),
         rmw |-> IF success THEN 0 ELSE 1]

\* failure patterns of one RegisterCheck() within the remaining budget: the
\* correction's transfers can fail only when the correction is made
FaultSets(value, reg_cfg, budget) ==
    { f \in SUBSET {"c", "r", "w"} :
        /\ Cardinality(f) <= budget
        /\ Verifies(RegisterRead(value, "c" \notin f), reg_cfg) => f \subseteq {"c"} }

Configure_until_first_failure(rg, fs) ==
    LET res == [i \in Entries |-> RegisterCheck(rg[i], register_cfg[i], fs[i])]
        bad == {i \in Entries : ~res[i].success}
        done(i) == \A j \in bad : i <= j
    IN  [success |-> bad = {},
         regs |-> [i \in Entries |-> IF done(i) THEN res[i].value ELSE rg[i]],
         checked |-> {i \in Entries : done(i)},
         failed |-> {i \in bad : done(i)},
         rmw |-> [i \in Entries |-> IF done(i) THEN res[i].rmw ELSE 0]]

Configure_skips_last(rg, fs) ==
    LET res == [i \in Entries |-> RegisterCheck(rg[i], register_cfg[i], fs[i])]
        done(i) == i < size_register_cfg
    IN  [success |-> \A i \in Entries : done(i) => res[i].success,
         regs |-> [i \in Entries |-> IF done(i) THEN res[i].value ELSE rg[i]],
         checked |-> {i \in Entries : done(i)},
         failed |-> {i \in Entries : done(i) /\ ~res[i].success},
         rmw |-> [i \in Entries |-> IF done(i) THEN res[i].rmw ELSE 0]]

\* Configure(): RegisterCheck() on every entry; fs gives each entry's failures
Configure(rg, fs) ==
    LET res == [i \in Entries |-> RegisterCheck(rg[i], register_cfg[i], fs[i])]
    IN  [success |-> \A i \in Entries : res[i].success,
         regs |-> [i \in Entries |-> res[i].value],
         checked |-> Entries,
         failed |-> {i \in Entries : ~res[i].success},
         rmw |-> [i \in Entries |-> res[i].rmw]]

\* what the entry requires of its register: all set_bits set, all clear_bits clear
Configured(value, reg_cfg) ==
    /\ reg_cfg.set_bits \subseteq value
    /\ value \cap reg_cfg.clear_bits = {}

NoRun == [phase |-> "none", failed |-> {}, rmw |-> [i \in Entries |-> 0],
          xfer |-> "none", stat |-> {}, pub |-> FALSE, due |-> FALSE,
          checked |-> {}, polls |-> 0, wai |-> 0, cntl3 |-> {}]

-----------------------------------------------------------------------------
(* Sample decoding.  Bytes and words are natural numbers; the shift, the   *)
(* bitwise OR and the conversion to int16_t are computed as the C++        *)
(* expression computes them on the promoted int operands.                  *)

\* what the sensor puts into a data register in the decoding specification
SampleBytes == {0, 1, 2, 128, 255}

\* bitwise OR of two non-negative ints
RECURSIVE BitOr(_, _)
BitOr(a, b) ==
    IF a = 0 THEN b
    ELSE IF b = 0 THEN a
    ELSE (IF a % 2 = 1 \/ b % 2 = 1 THEN 1 ELSE 0) + 2 * BitOr(a \div 2, b \div 2)

\* conversion of an int to int16_t: modulo 2^16 into -32768..32767
ToInt16(v) ==
    LET w == v % 65536
    IN  IF w >= 32768 THEN w - 65536 ELSE w

combine_swapped(msb, lsb) == ToInt16(BitOr(lsb * 256, msb))

\* combine(): return (msb << 8u) | lsb, as int16_t
combine(msb, lsb) == ToInt16(BitOr(msb * 256, lsb))

\* TransferBuffer buffer{}
ZeroBuffer ==
    [STAT |-> {}, DATAXL |-> 0, DATAXH |-> 0, DATAYL |-> 0, DATAYH |-> 0,
     DATAZL |-> 0, DATAZH |-> 0]

\* the buffers a bulk read can return
Buffers ==
    [STAT : SUBSET {DRDY, DOR}, DATAXL : SampleBytes, DATAXH : SampleBytes,
     DATAYL : SampleBytes, DATAYH : SampleBytes, DATAZL : SampleBytes,
     DATAZH : SampleBytes]

\* nothing decoded yet in this invocation
NoSample == [done |-> FALSE, pub |-> FALSE, x |-> 0, y |-> 0, z |-> 0]

-----------------------------------------------------------------------------
(* Scheduler (ScheduledWorkItem): one work-queue slot and one hrt call     *)

ScheduleNow ==
    /\ queued' = TRUE
    /\ UNCHANGED << timer, timer_left >>

ScheduleDelayed(d) ==
    /\ timer' = "once"
    /\ timer_left' = d
    /\ UNCHANGED queued

ScheduleOnInterval(d) ==
    /\ timer' = "every"
    /\ timer_left' = d
    /\ UNCHANGED queued

ScheduleClear ==
    /\ timer' = "off"
    /\ timer_left' = 0
    /\ queued' = FALSE

-----------------------------------------------------------------------------
(* State after construction: _state{RESET}, nothing scheduled, Init() not  *)
(* yet called; the sensor is in its power-on state.                        *)

Constructed ==
    /\ state = "RESET"
    /\ checked_register = 0
    /\ since_reset = ElapsedCap
    /\ since_check = ElapsedCap
    /\ queued = FALSE
    /\ timer = "off"
    /\ timer_left = 0
    /\ run_pc = "idle"
    /\ client_pc = "idle"
    /\ regs = PowerOnRegs
    /\ srst = FALSE
    /\ rearm = FALSE
    /\ last = NoRun
    /\ buffer = ZeroBuffer
    /\ sample = NoSample

\* a healthy bus and sensor; the client makes up to MaxCalls calls
Init ==
    /\ Constructed
    /\ faults = 0
    /\ drifts = 0
    /\ calls = MaxCalls

\* a healthy bus and sensor; the client makes one call
InitGood ==
    /\ Constructed
    /\ faults = 0
    /\ drifts = 0
    /\ calls = 1

\* a bus that fails and a sensor that drifts; the client makes one call
InitBus ==
    /\ Constructed
    /\ faults = MaxFaults
    /\ drifts = MaxDrifts
    /\ calls = 1

\* a READ invocation of the configured driver after its bulk read returned
InitDecode ==
    /\ state = "READ"
    /\ checked_register = 0
    /\ since_reset = ElapsedCap
    /\ since_check = ElapsedCap
    /\ queued = FALSE
    /\ timer = "every"
    /\ timer_left = SampleInterval
    /\ run_pc = "READ"
    /\ client_pc = "idle"
    /\ regs = [i \in Entries |-> register_cfg[i].set_bits]
    /\ srst = FALSE
    /\ faults = 0
    /\ drifts = 0
    /\ calls = 0
    /\ rearm = FALSE
    /\ last = NoRun
    /\ buffer \in Buffers
    /\ sample = NoSample

-----------------------------------------------------------------------------
(* Lifecycle controller: the client thread *)

\* Reset(): _state.store(STATE::RESET)
Reset_store ==
    /\ client_pc = "idle"
    /\ calls > 0
    /\ calls' = calls - 1
    /\ state' = "RESET"
    /\ rearm' = TRUE
    /\ client_pc' = "reset_clear"
    /\ UNCHANGED << io, driver, sched, run_pc, sensor, faults, drifts, last >>

\* Reset(): ScheduleClear()
Reset_clear ==
    /\ client_pc = "reset_clear"
    /\ ScheduleClear
    /\ client_pc' = "reset_now"
    /\ UNCHANGED << io, state, driver, run_pc, sensor, env, rearm, last >>

\* Reset(): ScheduleNow(); return true
Reset_now ==
    /\ client_pc = "reset_now"
    /\ ScheduleNow
    /\ client_pc' = "idle"
    /\ UNCHANGED << io, state, driver, run_pc, sensor, env, rearm, last >>

\* Stop() is entered
Stop_call ==
    /\ client_pc = "idle"
    /\ calls > 0
    /\ calls' = calls - 1
    /\ client_pc' = "stop_load"
    /\ UNCHANGED << io, state, driver, sched, run_pc, sensor, faults, drifts, rearm, last >>

\* Stop(): while (_state.load() != STATE::STOPPED)
Stop_load ==
    /\ client_pc = "stop_load"
    /\ client_pc' = IF state = "STOPPED" THEN "idle" ELSE "stop_store"
    /\ UNCHANGED << io, state, driver, sched, run_pc, sensor, env, rearm, last >>

\* Stop(): _state.store(STATE::REQUEST_STOP)
Stop_store ==
    /\ client_pc = "stop_store"
    /\ state' = "REQUEST_STOP"
    /\ rearm' = FALSE
    /\ client_pc' = "stop_now"
    /\ UNCHANGED << io, driver, sched, run_pc, sensor, env, last >>

\* Stop(): ScheduleNow()
Stop_now ==
    /\ client_pc = "stop_now"
    /\ ScheduleNow
    /\ client_pc' = "stop_sleep"
    /\ UNCHANGED << io, state, driver, run_pc, sensor, env, rearm, last >>

\* Stop(): px4_usleep(10)
Stop_sleep ==
    /\ client_pc = "stop_sleep"
    /\ client_pc' = "stop_load"
    /\ UNCHANGED << io, state, driver, sched, run_pc, sensor, env, rearm, last >>

-----------------------------------------------------------------------------
(* The step function Run() on the work-queue thread *)

Min(a, b) == IF a < b THEN a ELSE b

\* if (buffer.STAT && STAT_BIT::DRDY): both operands of the logical AND nonzero
StatReady(stat) == stat # {} /\ {DRDY} # {}

\* the work queue takes the item off the queue and calls Run()
Run_dequeue ==
    /\ run_pc = "idle"
    /\ queued
    /\ queued' = FALSE
    /\ run_pc' = "switch"
    /\ UNCHANGED << io, state, driver, timer, timer_left, client_pc, sensor, env, rearm, last >>

\* switch (_state.load())
Run_load ==
    /\ run_pc = "switch"
    /\ run_pc' = state
    /\ UNCHANGED << io, state, driver, sched, client_pc, sensor, env, rearm, last >>

\* case STATE::RESET, up to _state.store(STATE::WAIT_FOR_RESET)
Run_RESET ==
    /\ run_pc = "RESET"
    /\ \E f \in SUBSET {"r", "w"} :
        /\ Cardinality(f) <= faults
        /\ faults' = faults - Cardinality(f)
        /\ srst' = (SRST \in RegisterSetAndClearBits(IF srst THEN {SRST} ELSE {},
                                {SRST}, {}, "r" \notin f, "w" \notin f))
    /\ since_reset' = 0
    /\ state' = "WAIT_FOR_RESET"
    /\ run_pc' = "t_delayed"
    /\ rearm' = FALSE
    /\ last' = [NoRun EXCEPT !.phase = "RESET"]
    /\ UNCHANGED << io, checked_register, since_check, sched, client_pc, regs, drifts, calls >>

ResetDone_id_mismatch(wai, cntl3) == wai # Device_ID /\ (cntl3 \cap {SRST}) = {}

\* (RegisterRead(WAI) == Device_ID) && ((RegisterRead(CNTL3) & SRST) == 0)
ResetDone(wai, cntl3) == wai = Device_ID /\ (cntl3 \cap {SRST}) = {}

ResetTimedOut_at_once == since_reset >= 0

ResetTimedOut_inclusive == since_reset >= ResetTimeout

\* hrt_elapsed_time(&_reset_timestamp) > 100_ms
ResetTimedOut == since_reset > ResetTimeout

\* case STATE::WAIT_FOR_RESET, up to the store (or the ScheduleDelayed())
Run_WAIT_FOR_RESET ==
    /\ run_pc = "WAIT_FOR_RESET"
    /\ \E f \in SUBSET {"wai", "cntl3"} :
        LET wai == IF "wai" \in f THEN 0 ELSE Device_ID
            cntl3 == RegisterRead(IF srst THEN {SRST} ELSE {}, "cntl3" \notin f)
        IN  /\ Cardinality(f) <= faults
            /\ wai # Device_ID => "cntl3" \notin f
            /\ faults' = faults - Cardinality(f)
            /\ IF ResetDone(wai, cntl3)
               THEN /\ state' = "CONFIGURE"
                    /\ run_pc' = "t_now"
                    /\ UNCHANGED sched
               ELSE IF ResetTimedOut
               THEN /\ state' = "RESET"
                    /\ run_pc' = "t_now"
                    /\ UNCHANGED sched
               ELSE /\ ScheduleDelayed(Delay50ms)
                    /\ run_pc' = "t_return"
                    /\ UNCHANGED state
            /\ last' = [NoRun EXCEPT !.phase = "WAIT_FOR_RESET", !.wai = wai,
                                     !.cntl3 = IF wai = Device_ID THEN cntl3 ELSE {},
                                     !.polls = IF wai = Device_ID THEN 2 ELSE 1]
    /\ UNCHANGED << io, driver, client_pc, sensor, drifts, calls, rearm >>

\* case STATE::CONFIGURE, up to the store (or the ScheduleDelayed())
Run_CONFIGURE ==
    /\ run_pc = "CONFIGURE"
    /\ \E fs \in [Entries -> SUBSET {"c", "r", "w"}] :
        LET n == Cardinality({<<i, x>> \in Entries \X {"c", "r", "w"} : x \in fs[i]})
            c == Configure(regs, fs)
        IN  /\ n <= faults
            /\ \A i \in Entries : fs[i] \in FaultSets(regs[i], register_cfg[i], faults)
            /\ faults' = faults - n
            /\ regs' = c.regs
            /\ last' = [NoRun EXCEPT !.phase = "CONFIGURE", !.failed = c.failed,
                                     !.rmw = c.rmw, !.checked = c.checked]
            /\ IF c.success
               THEN /\ state' = "READ"
                    /\ run_pc' = "t_interval"
                    /\ UNCHANGED sched
               ELSE /\ ScheduleDelayed(Delay50ms)
                    /\ run_pc' = "t_return"
                    /\ UNCHANGED state
    /\ UNCHANGED << io, driver, client_pc, srst, drifts, calls, rearm >>

CheckDue_elapsed_only(failure) == since_check > CheckInterval

\* if (failure || hrt_elapsed_time(&_last_config_check_timestamp) > 100_ms)
CheckDue(failure) == failure \/ since_check > CheckInterval

Read_advance_by_two ==
    /\ since_check' = 0
    /\ checked_register' = (checked_register + 2) % size_register_cfg
    /\ run_pc' = "t_return"
    /\ UNCHANGED state

\* the check passed: record the timestamp, advance the cursor
Read_advance ==
    /\ since_check' = 0
    /\ checked_register' = (checked_register + 1) % size_register_cfg
    /\ run_pc' = "t_return"
    /\ UNCHANGED state

Read_reconfigure_delayed ==
    /\ state' = "CONFIGURE"
    /\ run_pc' = "t_delayed"
    /\ UNCHANGED << checked_register, since_check >>

Read_reconfigure_advancing ==
    /\ state' = "CONFIGURE"
    /\ run_pc' = "t_now"
    /\ checked_register' = (checked_register + 1) % size_register_cfg
    /\ UNCHANGED since_check

\* register check failed, force reconfigure: the store; ScheduleNow() follows
Read_reconfigure ==
    /\ state' = "CONFIGURE"
    /\ run_pc' = "t_now"
    /\ UNCHANGED << checked_register, since_check >>

\* case STATE::READ, up to the store on a failed health check
Run_READ ==
    /\ run_pc = "READ"
    /\ \E failure \in BOOLEAN, stat \in SUBSET {DRDY, DOR} :
        LET n == IF failure THEN 1 ELSE 0
            due == CheckDue(failure)
            reg_cfg == register_cfg[checked_register + 1]
            value == regs[checked_register + 1]
        IN  /\ n <= faults
            /\ failure => stat = {}
            /\ \E f \in FaultSets(value, reg_cfg, faults - n) :
                LET rc == RegisterCheck(value, reg_cfg, f)
                IN  /\ ~due => f = {}
                    /\ faults' = faults - n - Cardinality(f)
                    /\ last' = [NoRun EXCEPT !.phase = "READ",
                                   !.xfer = IF failure THEN "failed" ELSE "ok",
                                   !.stat = stat, !.pub = StatReady(stat), !.due = due,
                                   !.checked = IF due THEN {checked_register + 1} ELSE {},
                                   !.failed = IF due /\ ~rc.success
                                              THEN {checked_register + 1} ELSE {},
                                   !.rmw = IF due
                                           THEN [NoRun.rmw EXCEPT ![checked_register + 1] = rc.rmw]
                                           ELSE NoRun.rmw]
                    /\ IF ~due
                       THEN /\ run_pc' = "t_return"
                            /\ UNCHANGED << state, regs, checked_register, since_check >>
                       ELSE /\ regs' = [regs EXCEPT ![checked_register + 1] = rc.value]
                            /\ IF rc.success THEN Read_advance ELSE Read_reconfigure
    /\ UNCHANGED << io, since_reset, sched, client_pc, srst, drifts, calls, rearm >>

\* case STATE::READ, the sample: if the status byte passes the test, combine
\* each axis' bytes and call _px4_mag.update(timestamp_sample, x, y, z)
Read_decode ==
    /\ run_pc = "READ"
    /\ ~sample.done
    /\ sample' = IF StatReady(buffer.STAT)
                 THEN [done |-> TRUE, pub |-> TRUE,
                       x |-> combine(buffer.DATAXH, buffer.DATAXL),
                       y |-> combine(buffer.DATAYH, buffer.DATAYL),
                       z |-> combine(buffer.DATAZH, buffer.DATAZL)]
                 ELSE [NoSample EXCEPT !.done = TRUE]
    /\ UNCHANGED << state, driver, sched, run_pc, client_pc, sensor, env, rearm, last,
                    buffer >>

\* case STATE::REQUEST_STOP: ScheduleClear()
Run_REQUEST_STOP ==
    /\ run_pc = "REQUEST_STOP"
    /\ ScheduleClear
    /\ run_pc' = "t_stopped"
    /\ last' = [NoRun EXCEPT !.phase = "REQUEST_STOP"]
    /\ UNCHANGED << io, state, driver, client_pc, sensor, env, rearm >>

Run_STOPPED_reschedules ==
    /\ run_pc = "STOPPED"
    /\ run_pc' = "t_now"
    /\ last' = [NoRun EXCEPT !.phase = "STOPPED"]
    /\ UNCHANGED << io, state, driver, sched, client_pc, sensor, env, rearm >>

\* case STATE::STOPPED: do nothing
Run_STOPPED ==
    /\ run_pc = "STOPPED"
    /\ run_pc' = "t_return"
    /\ last' = [NoRun EXCEPT !.phase = "STOPPED"]
    /\ UNCHANGED << io, state, driver, sched, client_pc, sensor, env, rearm >>

\* the call that ends the case, if one is left: ScheduleDelayed(50_ms) after
\* RESET, ScheduleNow(), ScheduleOnInterval(20_ms, 20_ms) or
\* _state.store(STATE::STOPPED); then break and return
Run_tail ==
    /\ run_pc \in {"t_delayed", "t_now", "t_interval", "t_stopped", "t_return"}
    /\ CASE run_pc = "t_delayed" -> ScheduleDelayed(Delay50ms) /\ UNCHANGED state
         [] run_pc = "t_now" -> ScheduleNow /\ UNCHANGED state
         [] run_pc = "t_interval" -> ScheduleOnInterval(SampleInterval) /\ UNCHANGED state
         [] run_pc = "t_stopped" -> state' = "STOPPED" /\ UNCHANGED sched
         [] run_pc = "t_return" -> UNCHANGED << state, sched >>
    /\ run_pc' = "idle"
    /\ UNCHANGED << io, driver, client_pc, sensor, env, rearm, last >>

-----------------------------------------------------------------------------
(* Clock, hrt timer and sensor *)

\* 10 ms pass; the work queue serves a requested Run() within that time
Tick ==
    /\ run_pc = "idle"
    /\ ~queued
    /\ timer = "off" \/ timer_left > 0
    /\ since_reset' = Min(since_reset + 1, ElapsedCap)
    /\ since_check' = Min(since_check + 1, ElapsedCap)
    /\ timer_left' = IF timer = "off" THEN 0 ELSE timer_left - 1
    /\ last' = NoRun
    /\ UNCHANGED << io, state, checked_register, queued, timer, run_pc, client_pc,
                    sensor, env, rearm >>

\* 10 ms pass while a requested Run() still waits on the work queue
TickLate ==
    /\ run_pc = "idle"
    /\ queued
    /\ timer = "off" \/ timer_left > 0
    /\ since_reset' = Min(since_reset + 1, ElapsedCap)
    /\ since_check' = Min(since_check + 1, ElapsedCap)
    /\ timer_left' = IF timer = "off" THEN 0 ELSE timer_left - 1
    /\ last' = NoRun
    /\ UNCHANGED << io, state, checked_register, queued, timer, run_pc, client_pc,
                    sensor, env, rearm >>

\* 10 ms pass, for a sensor whose power-on reset takes at most 50 ms
TickInTime ==
    /\ ~(srst /\ since_reset >= Delay50ms)
    /\ Tick

\* the hrt call expires: the work item is put on the work queue
TimerFire ==
    /\ timer # "off"
    /\ timer_left = 0
    /\ queued' = TRUE
    /\ timer' = IF timer = "every" THEN "every" ELSE "off"
    /\ timer_left' = IF timer = "every" THEN SampleInterval ELSE 0
    /\ UNCHANGED << io, state, driver, run_pc, client_pc, sensor, env, rearm, last >>

\* the sensor completes its power-on reset routine: SRST self-clears
SensorResetDone ==
    /\ srst
    /\ srst' = FALSE
    /\ regs' = PowerOnRegs
    /\ UNCHANGED << io, state, driver, sched, run_pc, client_pc, env, rearm, last >>

\* the same, for a sensor whose power-on reset takes between 10 and 50 ms
SensorResetInTime ==
    /\ since_reset >= 1
    /\ SensorResetDone

\* a configuration register changes under the driver
Drift ==
    /\ drifts > 0
    /\ \E i \in Entries : \E v \in SUBSET CfgBits(i) :
        /\ v # regs[i]
        /\ regs' = [regs EXCEPT ![i] = v]
    /\ drifts' = drifts - 1
    /\ UNCHANGED << io, state, driver, sched, run_pc, client_pc, srst, faults, calls, rearm, last >>

\* the sensor resets by itself (brown-out): registers back to power-on values
SensorReset ==
    /\ drifts > 0
    /\ regs # PowerOnRegs
    /\ regs' = PowerOnRegs
    /\ drifts' = drifts - 1
    /\ UNCHANGED << io, state, driver, sched, run_pc, client_pc, srst, faults, calls, rearm, last >>

-----------------------------------------------------------------------------
(* Specifications *)

\* the steps of the work-queue thread
Run ==
    \/ Run_dequeue \/ Run_load
    \/ Run_RESET \/ Run_WAIT_FOR_RESET \/ Run_CONFIGURE \/ Run_READ
    \/ Run_REQUEST_STOP \/ Run_STOPPED
    \/ Run_tail

\* the steps of a Stop() or Reset() call that has been entered
ClientReturn ==
    \/ Reset_clear \/ Reset_now
    \/ Stop_load \/ Stop_store \/ Stop_now \/ Stop_sleep

Next ==
    \/ Reset_store \/ Reset_clear \/ Reset_now
    \/ Stop_call \/ Stop_load \/ Stop_store \/ Stop_now \/ Stop_sleep
    \/ Run_dequeue \/ Run_load
    \/ Run_RESET \/ Run_WAIT_FOR_RESET \/ Run_CONFIGURE \/ Run_READ
    \/ Run_REQUEST_STOP \/ Run_STOPPED
    \/ Run_tail
    \/ Tick \/ TimerFire
    \/ SensorResetDone

NextBus ==
    \/ Reset_store \/ Reset_clear \/ Reset_now
    \/ Stop_call \/ Stop_load \/ Stop_store \/ Stop_now \/ Stop_sleep
    \/ Run_dequeue \/ Run_load
    \/ Run_RESET \/ Run_WAIT_FOR_RESET \/ Run_CONFIGURE \/ Run_READ
    \/ Run_REQUEST_STOP \/ Run_STOPPED
    \/ Run_tail
    \/ Tick \/ TimerFire
    \/ SensorResetDone \/ Drift \/ SensorReset

\* Stop() and Reset() against the running driver, healthy bus
Spec == Init /\ [][Next]_vars

\* the driver against a failing bus and a drifting sensor
SpecBus == InitBus /\ [][NextBus]_vars

\* Spec with a scheduler that delivers: the work queue runs a queued item, the
\* client thread keeps executing, the clock advances and the hrt call fires
SpecFair ==
    /\ Init /\ [][Next]_vars
    /\ WF_vars(Run) /\ WF_vars(ClientReturn) /\ WF_vars(Tick) /\ WF_vars(TimerFire)

\* Run() with a status byte that has DRDY set
Run_READ_ready == Run_READ /\ DRDY \in last'.stat

\* the driver is started by Reset() and not stopped; the bus works and the
\* sensor completes its reset in time and has a sample ready again and again
NextGood ==
    \/ Reset_store \/ Reset_clear \/ Reset_now
    \/ Run_dequeue \/ Run_load
    \/ Run_RESET \/ Run_WAIT_FOR_RESET \/ Run_CONFIGURE \/ Run_READ
    \/ Run_tail
    \/ TickInTime \/ TimerFire
    \/ SensorResetInTime

Delivery ==
    /\ WF_vars(Run) /\ WF_vars(Reset_store \/ Reset_clear \/ Reset_now)
    /\ WF_vars(TimerFire)

SpecGood ==
    /\ InitGood /\ [][NextGood]_vars
    /\ Delivery /\ WF_vars(TickInTime) /\ WF_vars(SensorResetInTime)
    /\ SF_vars(Run_READ_ready)

\* the driver is started and re-initialized by Reset() and not stopped; the
\* sensor never completes its reset, so CNTL3.SRST stays set once written; the
\* work queue may be late
NextStuck ==
    \/ Reset_store \/ Reset_clear \/ Reset_now
    \/ Run_dequeue \/ Run_load
    \/ Run_RESET \/ Run_WAIT_FOR_RESET
    \/ Run_tail
    \/ Tick \/ TickLate \/ TimerFire

SpecStuck ==
    /\ Init /\ [][NextStuck]_vars
    /\ Delivery /\ WF_vars(Tick)

\* the driver is started by Reset() and not stopped; the bus fails and the
\* registers drift a bounded number of times; the sensor resets in time
NextHeal ==
    \/ Reset_store \/ Reset_clear \/ Reset_now
    \/ Run_dequeue \/ Run_load
    \/ Run_RESET \/ Run_WAIT_FOR_RESET \/ Run_CONFIGURE \/ Run_READ
    \/ Run_tail
    \/ TickInTime \/ TimerFire
    \/ SensorResetInTime \/ Drift \/ SensorReset

SpecHeal ==
    /\ InitBus /\ [][NextHeal]_vars
    /\ Delivery /\ WF_vars(TickInTime) /\ WF_vars(SensorResetInTime)

\* the driver is started and re-initialized by Reset() and never stopped
NextRun ==
    \/ Reset_store \/ Reset_clear \/ Reset_now
    \/ Run_dequeue \/ Run_load
    \/ Run_RESET \/ Run_WAIT_FOR_RESET \/ Run_CONFIGURE \/ Run_READ
    \/ Run_tail
    \/ Tick \/ TimerFire
    \/ SensorResetDone

SpecRun == Init /\ [][NextRun]_vars

\* the sample path of a READ invocation, over the buffers a bulk read returns
SpecDecode == InitDecode /\ [][Read_decode]_vars

TypeOK ==
    /\ state \in STATES
    /\ checked_register \in 0..(size_register_cfg - 1)
    /\ since_reset \in 0..ElapsedCap
    /\ since_check \in 0..ElapsedCap
    /\ queued \in BOOLEAN
    /\ timer \in {"off", "once", "every"}
    /\ timer_left \in 0..Delay50ms
    /\ run_pc \in STATES \cup {"idle", "switch", "t_delayed", "t_now", "t_interval", "t_stopped",
                                "t_return"}
    /\ faults \in 0..MaxFaults
    /\ drifts \in 0..MaxDrifts
    /\ calls \in 0..MaxCalls \cup {1}

-----------------------------------------------------------------------------
(* Claims about the lifecycle controller *)

StopInProgress == client_pc \in {"stop_load", "stop_store", "stop_now", "stop_sleep"}

ResetRequested ==
    /\ client_pc = "idle" /\ client_pc' = "reset_clear"

\* C1: under a scheduler that delivers every requested Run(), every Stop() call
\* that has been entered eventually observes STOPPED and returns.
C1_StopTerminates == StopInProgress ~> (client_pc = "idle")

\* C9: once Reset() has returned and until the RESET phase has run (no Stop()
\* in between), the state is RESET and an invocation of Run() is pending or
\* already on its way into the RESET phase.
C9_ResetRearms ==
    (rearm /\ client_pc = "idle") =>
        /\ state = "RESET"
        /\ queued \/ run_pc \in {"switch", "RESET"}

\* C10: a step that finds the state STOPPED leaves it STOPPED, unless the step
\* is the store of Reset().
C10_StoppedTerminal ==
    [][(state = "STOPPED" /\ ~ResetRequested) => state' = "STOPPED"]_vars

-----------------------------------------------------------------------------
(* Claims about configuration and health checking *)

ConfigureStep == run_pc = "CONFIGURE" /\ run_pc' # "CONFIGURE"

ReadStep == run_pc = "READ" /\ run_pc' # "READ"

\* the value RegisterSetAndClearBits() gives a register on a working bus
Corrected(i) == (regs[i] \cup register_cfg[i].set_bits) \ register_cfg[i].clear_bits

\* C5: when a CONFIGURE invocation succeeds (Configure() returns true and READ
\* is stored), every entry's register has all set_bits set and all clear_bits
\* clear.
C5_ConfiguredAfterConfigure ==
    [][(ConfigureStep /\ state' = "READ") =>
          \A i \in Entries : Configured(regs'[i], register_cfg[i])]_vars

\* C6: a READ invocation whose health check fails stores CONFIGURE and goes on
\* to ScheduleNow(); when it has returned the invocation is pending, no time
\* passes before the next invocation, and the next phase Run() executes is
\* CONFIGURE (no Reset() in between).
C6_FailedCheckReconfigures ==
    [][/\ (ReadStep /\ last'.failed # {}) => (state' = "CONFIGURE" /\ run_pc' = "t_now")
       /\ (run_pc = "t_now" /\ run_pc' = "idle") => queued'
       /\ (last.phase = "READ" /\ last.failed # {} /\ ~rearm /\ ~rearm') =>
             /\ run_pc' = "idle" => queued'
             /\ (run_pc = "switch" /\ run_pc' # "switch") => run_pc' = "CONFIGURE"
             /\ last' = last \/ (run_pc = "CONFIGURE" /\ last'.phase = "CONFIGURE")]_vars

C6_Witness ==
    /\ run_pc = "CONFIGURE" /\ state = "CONFIGURE"
    /\ last.phase = "READ" /\ last.failed # {}

\* C7: in a CONFIGURE invocation every entry that fails verification gets
\* exactly one corrective read-modify-write and every entry that passes gets
\* none (on a working bus: the failing registers are corrected, the others
\* keep their value); if an entry failed, the state is left alone and
\* ScheduleDelayed(50 ms) is called, else READ is stored.
C7_ConfigureCorrectsOnce ==
    [][ConfigureStep =>
        /\ \A i \in Entries : last'.rmw[i] = IF i \in last'.failed THEN 1 ELSE 0
        /\ faults' = faults =>
              /\ last'.failed = {i \in Entries : ~Verifies(regs[i], register_cfg[i])}
              /\ \A i \in Entries :
                    regs'[i] = IF i \in last'.failed THEN Corrected(i) ELSE regs[i]
        /\ last'.failed # {} =>
              /\ state' = state /\ run_pc' = "t_return"
              /\ timer' = "once" /\ timer_left' = Delay50ms
        /\ last'.failed = {} => (state' = "READ" /\ run_pc' = "t_interval")]_vars

C7_Witness ==
    /\ last.phase = "CONFIGURE" /\ last.failed = {2, 3}
    /\ last.rmw = [i \in Entries |-> IF i = 1 THEN 0 ELSE 1]
    /\ state = "CONFIGURE" /\ run_pc = "t_return" /\ timer = "once"

\* C8 as stated: every sampling cycle (READ invocation with a good transfer)
\* whose entry verifies visits that entry and moves the cursor on, so that
\* size_register_cfg cycles visit every entry once.
C8_OncePerSamplingCycle ==
    [][(ReadStep /\ last'.xfer = "ok"
          /\ Verifies(regs[checked_register + 1], register_cfg[checked_register + 1]))
        => checked_register' = (checked_register + 1) % size_register_cfg]_vars

\* C8 amended: the cursor starts at 0 and moves only in a READ invocation whose
\* check is due (the transfer failed or more than 100 ms since the last passed
\* check) and passes; it then steps to the next index modulo the table length.
C8_RoundRobin ==
    /\ checked_register = 0
    /\ [][checked_register' # checked_register =>
            /\ ReadStep
            /\ checked_register' = (checked_register + 1) % size_register_cfg
            /\ last'.xfer = "failed" \/ since_check > CheckInterval
            /\ last'.failed = {}]_vars

C8_Witness ==
    /\ checked_register = 0 /\ since_check = 0
    /\ last.phase = "READ" /\ last.due /\ last.failed = {}

-----------------------------------------------------------------------------
(* Claims about start-up, reset retry and self-healing *)

AllVerify == \A i \in Entries : Verifies(regs[i], register_cfg[i])

\* C2: with a working bus and a sensor that resets in time, the driver started
\* by Reset() passes RESET, WAIT_FOR_RESET and CONFIGURE, reaches READ and
\* stays there with Run() scheduled on the 20 ms interval, and forwards samples
\* again and again.
C2_ReachesRead ==
    /\ <>(last.phase = "RESET") /\ <>(last.phase = "WAIT_FOR_RESET")
    /\ <>(last.phase = "CONFIGURE")
    /\ <>[](state = "READ" /\ (run_pc = "idle" => (timer = "every" /\ timer_left <= SampleInterval)))
    /\ []<>(last.phase = "READ" /\ last.pub)

C2_Witness ==
    /\ state = "READ" /\ timer = "every" /\ srst = FALSE
    /\ last.phase = "READ" /\ last.pub /\ DRDY \in last.stat

\* C3: with CNTL3.SRST stuck, the driver never enters CONFIGURE or READ, the
\* RESET phase is executed again and again (so the driver never halts), and
\* each execution that Reset() did not ask for comes more than 100 ms after
\* the previous software reset was issued.
C3_RetriesReset ==
    /\ [](state \notin {"CONFIGURE", "READ"})
    /\ []<>(last.phase = "RESET")
    /\ []<>(last.phase # "RESET")
    /\ [][(run_pc = "RESET" /\ run_pc' # "RESET" /\ ~rearm)
              => since_reset > ResetTimeout]_vars

C3_Witness ==
    /\ run_pc = "RESET" /\ state = "RESET" /\ ~rearm
    /\ srst /\ since_reset > ResetTimeout

\* C4: whatever the bus failures and register upsets, once they have ceased
\* the driver is in READ for good with a configuration that verifies, and
\* keeps sampling; the entry whose health check fails on a working bus is put
\* right by that check; an entry that does not verify while the driver is in
\* READ makes it leave READ for CONFIGURE.
C4_SelfHealing ==
    /\ <>[](state = "READ" /\ AllVerify)
    /\ []<>(last.phase = "READ")
    /\ [][(ReadStep /\ last'.failed # {} /\ faults' = faults) =>
            Configured(regs'[checked_register + 1], register_cfg[checked_register + 1])]_vars
    /\ [](( /\ state = "READ" /\ ~AllVerify
            /\ faults = 0 /\ drifts = 0) => <>(state = "CONFIGURE"))

C4_Witness ==
    /\ state = "READ" /\ run_pc = "t_interval" /\ last.phase = "CONFIGURE"
    /\ checked_register = 1 /\ drifts = 0 /\ AllVerify

-----------------------------------------------------------------------------
(* Claims about the phases of Run() *)

\* what a Run() invocation can change besides its own position
RunFrame == << state, driver, sched, sensor, faults >>

\* C11: a Run() invocation that loaded STOPPED makes no bus transfer, calls no
\* Schedule*(), and leaves the state, the cursor, both timestamps and the
\* sensor as they are, in the STOPPED case and on its way out of Run().
C11_StoppedNoOp ==
    [][/\ (run_pc = "STOPPED" /\ run_pc' # "STOPPED") =>
             /\ run_pc' = "t_return"
             /\ last'.xfer = "none" /\ last'.rmw = NoRun.rmw
             /\ UNCHANGED RunFrame
       /\ (last.phase = "STOPPED" /\ run_pc = "t_return" /\ run_pc' # run_pc) =>
             /\ run_pc' = "idle"
             /\ UNCHANGED RunFrame]_vars

C11_Witness ==
    /\ last.phase = "STOPPED" /\ run_pc = "idle"
    /\ state = "STOPPED" /\ ~queued /\ timer = "off"

\* C12: a READ invocation forwards a sample exactly when the DRDY bit is set
\* in the status byte of the bulk read.
C12_ForwardIffDRDY ==
    [][ReadStep => (last'.pub <=> DRDY \in last'.stat)]_vars

\* the int16_t that is the 16-bit word high:low read as two's complement
IsWord16(v, high, low) ==
    /\ v \in -32768..32767
    /\ (v - (high * 256 + low)) % 65536 = 0
    /\ high < 128 => v = high * 256 + low
    /\ high >= 128 => v = high * 256 + low - 65536

\* C13: a forwarded sample's X, Y and Z are the 16-bit words DATAXH:DATAXL,
\* DATAYH:DATAYL and DATAZH:DATAZL of the buffer, each read as a two's-complement
\* signed 16-bit integer.
C13_DecodesWord16 ==
    sample.pub =>
        /\ IsWord16(sample.x, buffer.DATAXH, buffer.DATAXL)
        /\ IsWord16(sample.y, buffer.DATAYH, buffer.DATAYL)
        /\ IsWord16(sample.z, buffer.DATAZH, buffer.DATAZL)

C13_Witness ==
    /\ sample.pub
    /\ buffer.DATAXH = 1 /\ buffer.DATAXL = 2 /\ sample.x = 258
    /\ buffer.DATAYH = 128 /\ buffer.DATAYL = 1 /\ sample.y = -32767
    /\ buffer.DATAZH = 255 /\ buffer.DATAZL = 255 /\ sample.z = -1

-----------------------------------------------------------------------------
(* Claims about the state variable and the bus *)

\* the state changes the cases of Run() make when nothing interferes
RunEdges ==
    { <<"RESET", "WAIT_FOR_RESET">>, <<"WAIT_FOR_RESET", "CONFIGURE">>,
      <<"WAIT_FOR_RESET", "RESET">>, <<"CONFIGURE", "READ">>,
      <<"READ", "CONFIGURE">>, <<"REQUEST_STOP", "STOPPED">> }

\* C14: every change of the state is an edge of Run(), the store of Stop()
\* (to REQUEST_STOP) or the store of Reset() (to RESET).
C14_EdgesOnly ==
    [][state' # state =>
          \/ <<state, state'>> \in RunEdges
          \/ state' = "REQUEST_STOP" /\ client_pc = "stop_store"
          \/ state' = "RESET" /\ ResetRequested]_vars

\* bus-affecting actions of an invocation: reset pulses, identity/reset polls,
\* register checks and sample transfers
BusActions(l) ==
    (IF l.phase = "RESET" THEN 1 ELSE 0) + l.polls + Cardinality(l.checked)
        + (IF l.xfer # "none" THEN 1 ELSE 0)

\* C15 as stated: no invocation of Run() performs more than one bus-affecting
\* action.
C15_AtMostOneBusAction == BusActions(last) <= 1

\* C15 amended: an invocation performs the bus actions of the one phase it
\* executes: RESET one reset pulse; WAIT_FOR_RESET the identity poll and, if
\* the identity matches, the reset-bit poll; CONFIGURE one register check per
\* table entry; READ one sample transfer and, if a check is due, one register
\* check; REQUEST_STOP and STOPPED none.  A register check makes at most one
\* corrective write.
C15_BusActionsOfOnePhase ==
    /\ last.phase = "RESET" => BusActions(last) = 1
    /\ last.phase = "WAIT_FOR_RESET" =>
          /\ last.polls = (IF last.wai = Device_ID THEN 2 ELSE 1)
          /\ BusActions(last) = last.polls
    /\ last.phase = "CONFIGURE" =>
          /\ last.checked = Entries
          /\ BusActions(last) = size_register_cfg
    /\ last.phase = "READ" =>
          /\ last.xfer # "none"
          /\ Cardinality(last.checked) = (IF last.due THEN 1 ELSE 0)
          /\ BusActions(last) = 1 + Cardinality(last.checked)
    /\ last.phase \in {"REQUEST_STOP", "STOPPED", "none"} => BusActions(last) = 0
    /\ \A i \in Entries : last.rmw[i] <= (IF i \in last.checked THEN 1 ELSE 0)

C15_Witness ==
    /\ last.phase = "CONFIGURE" /\ last.failed = {} /\ state = "READ"
    /\ BusActions(last) = size_register_cfg

\* C16: a READ invocation verifies the entry at the cursor, and only that one,
\* if its sample transfer failed or more than 100 ms have passed since the last
\* recorded check, and verifies (and corrects) nothing otherwise.
C16_CheckWhenDue ==
    [][ReadStep =>
          IF last'.xfer = "failed" \/ since_check > CheckInterval
          THEN last'.checked = {checked_register + 1}
          ELSE /\ last'.checked = {}
               /\ last'.rmw = NoRun.rmw
               /\ UNCHANGED << regs, checked_register, since_check, state >>]_vars

C16_Witness ==
    /\ last.phase = "READ" /\ last.xfer = "failed" /\ last.checked = {2}
    /\ since_check = 0 /\ checked_register = 2

-----------------------------------------------------------------------------
(* Claims about the reset loop, the cursor and the schedule *)

WaitStep == run_pc = "WAIT_FOR_RESET" /\ run_pc' # "WAIT_FOR_RESET"

\* C17: a WAIT_FOR_RESET invocation stores CONFIGURE and goes on to
\* ScheduleNow() exactly when the identity read equals Device_ID and the reset
\* bit reads clear (on a working bus: exactly when the sensor has cleared
\* SRST); otherwise it stores RESET and goes on to ScheduleNow() if more than
\* 100 ms have passed since the reset, and else leaves the state alone and
\* calls ScheduleDelayed(50 ms).  It stores no other state.
C17_WaitForReset ==
    [][WaitStep =>
          LET done == last'.wai = Device_ID /\ SRST \notin last'.cntl3
          IN  /\ faults' = faults => (done <=> ~srst)
              /\ done => (state' = "CONFIGURE" /\ run_pc' = "t_now" /\ UNCHANGED sched)
              /\ (~done /\ since_reset > ResetTimeout) =>
                     (state' = "RESET" /\ run_pc' = "t_now" /\ UNCHANGED sched)
              /\ (~done /\ since_reset <= ResetTimeout) =>
                     /\ UNCHANGED state /\ run_pc' = "t_return"
                     /\ timer' = "once" /\ timer_left' = Delay50ms]_vars

C17_Witness ==
    /\ last.phase = "WAIT_FOR_RESET" /\ srst /\ since_reset = ResetTimeout
    /\ state = "WAIT_FOR_RESET" /\ run_pc = "t_return" /\ timer = "once"

C19_NothingPendingAfterStop ==
    [][(client_pc = "stop_load" /\ client_pc' = "idle") =>
          (~queued' /\ timer' = "off")]_vars

Running == {"RESET", "WAIT_FOR_RESET", "CONFIGURE", "READ"}

\* an invocation of Run() is scheduled: the work item is queued or its hrt
\* call is armed
Scheduled == queued \/ timer # "off"

RunReturns == run_pc # "idle" /\ run_pc' = "idle"

\* C20: without Stop(), whenever Run() returns, the state is RESET,
\* WAIT_FOR_RESET, CONFIGURE or READ and an invocation of Run() is scheduled
\* (or a Reset() call that has cleared the schedule has its ScheduleNow()
\* still to make); and what is scheduled stays scheduled until Run() is
\* invoked.
C20_NeverStalls ==
    [][/\ RunReturns =>
             /\ state' \in Running
             /\ Scheduled' \/ client_pc' = "reset_now"
       /\ (run_pc = "idle" /\ run_pc' = "idle"
              /\ (Scheduled \/ client_pc \in {"reset_clear", "reset_now"})) =>
             (Scheduled' \/ client_pc' \in {"reset_clear", "reset_now"})]_vars

====
